---- MODULE Spec2Model ----
(***************************************************************************)
(* Model of cloud/statuscategory.go: StatusCategoryService.GetList and     *)
(* StatusCategoryService.Get on top of the client's NewRequest / Do.       *)
(*                                                                         *)
(* Strings that are built or inspected character by character (endpoints,  *)
(* identifiers) are sequences of one-character strings; messages are       *)
(* plain strings.  Every handler call is one action; the state keeps the   *)
(* arguments of the latest call, what it returned and the client calls it  *)
(* made, each with what the client answered.                               *)
(***************************************************************************)
EXTENDS Integers, Sequences, FiniteSets, TLC

VARIABLES call, ret, log

vars == <<call, ret, log>>

(* ------------------------------ bounds --------------------------------- *)

MaxIdLen == 2
MaxLen == 2

SeqsUpTo(S, n) == UNION {[1..k -> S] : k \in 0..n}

(* --------------------------- inputs ------------------------------------ *)

Contexts == {"active", "canceled"}

IdChars == {"d", "/", "%"}
Ids == SeqsUpTo(IdChars, MaxIdLen)

Statuses == {200, 299, 300, 404, 500}

JsonObjs ==
  { [self |-> "http://x/1", id |-> 1, name |-> "To Do", key |-> "new",
     colorName |-> "blue-gray"],
    [self |-> "http://x/3", id |-> 3, name |-> "Done", key |-> "done",
     colorName |-> "green"],
    [self |-> "http://x/3", id |-> 3, name |-> "In Progress",
     key |-> "indeterminate", colorName |-> "yellow"],
    [self |-> "http://x/4", id |-> 4, name |-> "Backlog", key |-> "new",
     colorName |-> "blue-gray"] }

JsonArrays == SeqsUpTo(JsonObjs, MaxLen)

ArrayBody(objs) == [kind |-> "array", items |-> objs]
ObjectBody(obj) == [kind |-> "object", items |-> <<obj>>]
EmptyBody == [kind |-> "none", items |-> <<>>]

(* What the client and the server do during one call: the request cannot  *)
(* be built, the connection fails, the server answers with a failure       *)
(* status, or it answers with a success status and a body.                 *)
Env(b, n, s, body) == [build |-> b, net |-> n, status |-> s, body |-> body]

FailEnvs ==
  {Env("fail", "ok", 200, EmptyBody), Env("ok", "fault", 200, EmptyBody)}
    \cup {Env("ok", "ok", s, EmptyBody) : s \in {t \in Statuses : t >= 300}}

ListEnvs ==
  FailEnvs \cup {Env("ok", "ok", s, ArrayBody(a)) :
                   s \in {t \in Statuses : t < 300}, a \in JsonArrays}

GetEnvs ==
  FailEnvs \cup {Env("ok", "ok", s, ObjectBody(o)) :
                   s \in {t \in Statuses : t < 300}, o \in JsonObjs}

(* ----------------------- values of the program ------------------------- *)

StatusCategoryComplete == "done"
StatusCategoryInProgress == "indeterminate"
StatusCategoryToDo == "new"
StatusCategoryUndefined == "undefined"

ZeroStatusCategory ==
  [Self |-> "", ID |-> 0, Name |-> "", Key |-> "", ColorName |-> ""]

(* json tags of StatusCategory: one JSON object to one struct *)
DecodeObject(o) ==
  [Self |-> o.self, ID |-> o.id, Name |-> o.name, Key |-> o.key,
   ColorName |-> o.colorName]

(* a nil slice or nil pointer / a slice / a pointer to one struct *)
NilValue == [nil |-> TRUE, items |-> <<>>]
NewStatusCategory == [nil |-> FALSE, items |-> <<ZeroStatusCategory>>]

NilResp == [nil |-> TRUE, status |-> 0, body |-> EmptyBody]

NoErr == [kind |-> "nil", msg |-> "", resp |-> NilResp, cause |-> "nil"]

BaseErr(kind, msg) ==
  [kind |-> kind, msg |-> msg, resp |-> NilResp, cause |-> "nil"]

(* ------------------------------ client --------------------------------- *)

MethodGet == "GET"

IsSuccess(status) == 200 <= status /\ status <= 299

Entry(fn, req, resp, err) ==
  [fn |-> fn, ctx |-> req.ctx, method |-> req.method, path |-> req.path,
   hasBody |-> req.hasBody, resp |-> resp, err |-> err]

NewRequest(env, ctx, method, urlStr, hasBody) ==
  LET req == [ctx |-> ctx, method |-> method, path |-> urlStr,
              hasBody |-> hasBody]
      err == IF env.build = "ok" THEN NoErr
             ELSE IF ctx = "canceled"
                  THEN BaseErr("canceled", "context canceled")
                  ELSE BaseErr("config", "invalid base configuration")
  IN [req |-> req, err |-> err, entry |-> Entry("NewRequest", req, NilResp, err)]

Decode(body, v) ==
  [nil |-> FALSE,
   items |-> [i \in 1..Len(body.items) |-> DecodeObject(body.items[i])]]

Do(env, req, v) ==
  LET resp == [nil |-> FALSE, status |-> env.status, body |-> env.body]
      out == IF req.ctx = "canceled"
             THEN [resp |-> NilResp, v |-> v,
                   err |-> BaseErr("canceled", "context canceled")]
             ELSE IF env.net = "fault"
             THEN [resp |-> NilResp, v |-> v,
                   err |-> BaseErr("network", "connection failed")]
             ELSE IF ~IsSuccess(env.status)
             THEN [resp |-> resp, v |-> v,
                   err |-> BaseErr("status", "request failed")]
             ELSE [resp |-> resp, v |-> Decode(env.body, v), err |-> NoErr]
  IN [resp |-> out.resp, v |-> out.v, err |-> out.err,
      entry |-> Entry("Do", req, out.resp, out.err)]

NewJiraError(resp, httpError) ==
  [kind |-> "api", msg |-> httpError.msg, resp |-> resp,
   cause |-> httpError.kind]

(* ------------------------------ fmt ------------------------------------ *)

RECURSIVE Sprintf(_, _)
Sprintf(format, arg) ==
  IF format = <<>> THEN <<>>
  ELSE IF Len(format) >= 2 /\ format[1] = "%" /\ format[2] = "v"
       THEN arg \o SubSeq(format, 3, Len(format))
       ELSE <<Head(format)>> \o Sprintf(Tail(format), arg)

RECURSIVE PathEscape(_)
PathEscape(s) ==
  IF s = <<>> THEN <<>>
  ELSE (IF Head(s) = "/" THEN <<"%", "2", "F">>
        ELSE IF Head(s) = "%" THEN <<"%", "2", "5">>
        ELSE <<Head(s)>>) \o PathEscape(Tail(s))

RECURSIVE Reverse(_)
Reverse(s) == IF s = <<>> THEN <<>> ELSE Reverse(Tail(s)) \o <<Head(s)>>

(* --------------------------- the service ------------------------------- *)

Ret(value, resp, err, entries) ==
  [value |-> value, resp |-> resp, err |-> err, log |-> entries]

GetListEndpoint ==
  <<"/", "r", "e", "s", "t", "/", "a", "p", "i", "/", "3", "/",
    "s", "t", "a", "t", "u", "s", "c", "a", "t", "e", "g", "o", "r", "y">>

GetFormat == GetListEndpoint \o <<"/", "%", "v">>

GetEndpointEscaped(statusCategoryID) ==
  Sprintf(GetFormat, PathEscape(statusCategoryID))

GetEndpoint(statusCategoryID) == Sprintf(GetFormat, statusCategoryID)

ErrNotSetReworded == BaseErr("validation", "jira: no status category set")

ErrNotSet == BaseErr("validation", "jira: not status category set")

(* GetList, lines 46-52, mutants first *)

GetListDoRetry(b, env) ==
  LET d == Do(env, b.req, NilValue)
      d2 == Do(env, b.req, NilValue)
  IN IF d.err # NoErr
     THEN Ret(NilValue, d2.resp, NewJiraError(d2.resp, d2.err),
              <<b.entry, d.entry, d2.entry>>)
     ELSE Ret(d.v, d.resp, NoErr, <<b.entry, d.entry>>)

GetListDoSwallow(b, env) ==
  LET d == Do(env, b.req, NilValue)
  IN Ret(d.v, d.resp, NoErr, <<b.entry, d.entry>>)

GetListDoReversed(b, env) ==
  LET d == Do(env, b.req, NilValue)
  IN IF d.err # NoErr
     THEN Ret(NilValue, d.resp, NewJiraError(d.resp, d.err),
              <<b.entry, d.entry>>)
     ELSE Ret([d.v EXCEPT !.items = Reverse(@)], d.resp, NoErr,
              <<b.entry, d.entry>>)

GetListDoDoubled(b, env) ==
  LET d == Do(env, b.req, NilValue)
  IN IF d.err # NoErr
     THEN Ret(NilValue, d.resp, NewJiraError(d.resp, d.err),
              <<b.entry, d.entry>>)
     ELSE Ret([d.v EXCEPT !.items = @ \o @], d.resp, NoErr,
              <<b.entry, d.entry>>)

GetListDo(b, env) ==
  LET d == Do(env, b.req, NilValue)
  IN IF d.err # NoErr
     THEN Ret(NilValue, d.resp, NewJiraError(d.resp, d.err),
              <<b.entry, d.entry>>)
     ELSE Ret(d.v, d.resp, NoErr, <<b.entry, d.entry>>)

(* GetList, lines 39-53 *)

GetListBackground(ctx, env) ==
  LET b == NewRequest(env, "active", MethodGet, GetListEndpoint, FALSE)
  IN IF b.err # NoErr
     THEN Ret(NilValue, NilResp, b.err, <<b.entry>>)
     ELSE GetListDo(b, env)

GetList(ctx, env) ==
  LET b == NewRequest(env, ctx, MethodGet, GetListEndpoint, FALSE)
  IN IF b.err # NoErr
     THEN Ret(NilValue, NilResp, b.err, <<b.entry>>)
     ELSE GetListDo(b, env)

(* Get, lines 72-78 *)

GetDoKeepValue(b, env) ==
  LET d == Do(env, b.req, NewStatusCategory)
  IN IF d.err # NoErr
     THEN Ret(d.v, d.resp, NewJiraError(d.resp, d.err), <<b.entry, d.entry>>)
     ELSE Ret(d.v, d.resp, NoErr, <<b.entry, d.entry>>)

GetDo(b, env) ==
  LET d == Do(env, b.req, NewStatusCategory)
  IN IF d.err # NoErr
     THEN Ret(NilValue, d.resp, NewJiraError(d.resp, d.err),
              <<b.entry, d.entry>>)
     ELSE Ret(d.v, d.resp, NoErr, <<b.entry, d.entry>>)

(* Get, lines 66-78 *)

GetRequestWrapped(ctx, statusCategoryID, env) ==
  LET b == NewRequest(env, ctx, MethodGet, GetEndpoint(statusCategoryID), FALSE)
  IN IF b.err # NoErr
     THEN Ret(NilValue, NilResp, NewJiraError(NilResp, b.err), <<b.entry>>)
     ELSE GetDo(b, env)

GetRequest(ctx, statusCategoryID, env) ==
  LET b == NewRequest(env, ctx, MethodGet, GetEndpoint(statusCategoryID), FALSE)
  IN IF b.err # NoErr
     THEN Ret(NilValue, NilResp, b.err, <<b.entry>>)
     ELSE GetDo(b, env)

(* Get, lines 61-79 *)

GetUnchecked(ctx, statusCategoryID, env) ==
  GetRequest(ctx, statusCategoryID, env)

Get(ctx, statusCategoryID, env) ==
  IF statusCategoryID = <<>>
  THEN Ret(NilValue, NilResp, ErrNotSet, <<>>)
  ELSE GetRequest(ctx, statusCategoryID, env)

(* --------------------------- state machine ----------------------------- *)

Init ==
  /\ call = [op |-> "none", ctx |-> "active", id |-> <<>>]
  /\ ret = [value |-> NilValue, resp |-> NilResp, err |-> NoErr]
  /\ log = <<>>

Returned(r) ==
  /\ ret' = [value |-> r.value, resp |-> r.resp, err |-> r.err]
  /\ log' = r.log

CallGetList ==
  \E ctx \in Contexts, env \in ListEnvs :
    /\ call' = [op |-> "GetList", ctx |-> ctx, id |-> <<>>]
    /\ Returned(GetList(ctx, env))

CallGet ==
  \E ctx \in Contexts, id \in Ids, env \in GetEnvs :
    /\ call' = [op |-> "Get", ctx |-> ctx, id |-> id]
    /\ Returned(Get(ctx, id, env))

Next == CallGetList \/ CallGet

Spec == Init /\ [][Next]_vars

(* ------------------------------ claims --------------------------------- *)

BuildCalls == SelectSeq(log, LAMBDA e : e.fn = "NewRequest")
DoCalls == SelectSeq(log, LAMBDA e : e.fn = "Do")

CalledGet == call.op = "Get" /\ call.id # <<>>
CalledGetEmpty == call.op = "Get" /\ call.id = <<>>
CalledGetList == call.op = "GetList"
Called == CalledGetList \/ CalledGet

ExpectedListPath ==
  <<"/", "r", "e", "s", "t", "/", "a", "p", "i", "/", "3", "/",
    "s", "t", "a", "t", "u", "s", "c", "a", "t", "e", "g", "o", "r", "y">>

ExpectedGetPath(id) == ExpectedListPath \o <<"/">> \o id

DecodedItems(body) ==
  [i \in 1..Len(body.items) |->
     [Self |-> body.items[i].self, ID |-> body.items[i].id,
      Name |-> body.items[i].name, Key |-> body.items[i].key,
      ColorName |-> body.items[i].colorName]]

(* C1: Get with the empty identifier calls neither NewRequest nor Do and   *)
(* returns a validation error with a nil category and a nil response.      *)
C1_EmptyIdNoNetwork ==
  CalledGetEmpty =>
    /\ log = <<>>
    /\ ret.err.kind = "validation"
    /\ ret.value.nil
    /\ ret.resp.nil

C1_Witness == CalledGetEmpty /\ ret.err.kind = "validation"

(* C2 as stated: for a non-empty identifier, Get executes exactly one GET  *)
(* request, never zero, whose path is the prefix followed by the literal   *)
(* identifier.                                                             *)
C2_Original ==
  CalledGet =>
    /\ Len(DoCalls) = 1
    /\ DoCalls[1].method = "GET"
    /\ DoCalls[1].path = ExpectedGetPath(call.id)

(* C2 amended: for a non-empty identifier, Get asks the client to build    *)
(* exactly one GET request, without body, whose path is the prefix         *)
(* followed by the literal identifier; that request is executed exactly    *)
(* once when it could be built (also when the execution fails) and not at  *)
(* all when it could not.                                                  *)
C2_OneLiteralGet ==
  CalledGet =>
    /\ Len(BuildCalls) = 1
    /\ BuildCalls[1].method = "GET"
    /\ BuildCalls[1].path = ExpectedGetPath(call.id)
    /\ ~BuildCalls[1].hasBody
    /\ Len(DoCalls) = (IF BuildCalls[1].err = NoErr THEN 1 ELSE 0)
    /\ \A i \in DOMAIN DoCalls :
         /\ DoCalls[i].method = "GET"
         /\ DoCalls[i].path = ExpectedGetPath(call.id)
         /\ ~DoCalls[i].hasBody

C2_Witness ==
  /\ CalledGet
  /\ \E i \in DOMAIN call.id : call.id[i] \in {"/", "%"}
  /\ Len(DoCalls) = 1
  /\ DoCalls[1].err # NoErr

(* C3 as stated: every GetList call executes exactly one GET request to    *)
(* the fixed path, without body, whatever the context and the outcome.     *)
C3_Original ==
  CalledGetList =>
    /\ Len(DoCalls) = 1
    /\ DoCalls[1].method = "GET"
    /\ DoCalls[1].path = ExpectedListPath
    /\ ~DoCalls[1].hasBody

(* C3 amended: every GetList call asks the client to build exactly one GET *)
(* request to the fixed path, without body, whatever the context; the      *)
(* request is executed exactly once when it could be built, whether the    *)
(* execution succeeds or fails, and not at all when it could not; nothing  *)
(* is retried.                                                             *)
C3_OneFixedGet ==
  CalledGetList =>
    /\ Len(BuildCalls) = 1
    /\ BuildCalls[1].method = "GET"
    /\ BuildCalls[1].path = ExpectedListPath
    /\ ~BuildCalls[1].hasBody
    /\ Len(DoCalls) = (IF BuildCalls[1].err = NoErr THEN 1 ELSE 0)
    /\ \A i \in DOMAIN DoCalls :
         /\ DoCalls[i].method = "GET"
         /\ DoCalls[i].path = ExpectedListPath
         /\ ~DoCalls[i].hasBody

C3_Witness ==
  /\ CalledGetList
  /\ call.ctx = "active"
  /\ Len(DoCalls) = 1
  /\ DoCalls[1].err.kind = "network"

(* C4: when the server answers GetList or Get (non-empty identifier) with  *)
(* a status >= 300, the operation returns an API error wrapping that       *)
(* response, a nil value, and that response as metadata.                   *)
C4_FailureStatus ==
  Called =>
    \A i \in DOMAIN log :
      (log[i].fn = "Do" /\ ~log[i].resp.nil /\ log[i].resp.status >= 300) =>
        /\ ret.err.kind = "api"
        /\ ret.err.resp = log[i].resp
        /\ ret.value.nil
        /\ ret.resp = log[i].resp

C4_Witness ==
  /\ CalledGet
  /\ Len(DoCalls) = 1
  /\ ~DoCalls[1].resp.nil
  /\ DoCalls[1].resp.status = 404

(* C5: with a cancelled context GetList and Get (non-empty identifier)     *)
(* return a context-cancellation error, bare or wrapped in an API error,   *)
(* and never a non-nil value with a nil error.                             *)
IsCancellation(e) ==
  \/ e.kind = "canceled"
  \/ e.kind = "api" /\ e.cause = "canceled"

C6_NoPartialSuccess ==
  (Called \/ CalledGetEmpty) =>
    /\ (ret.err = NoErr) <=> ~ret.value.nil
    /\ ret.err # NoErr => ret.value = NilValue
    /\ ret.err = NoErr =>
         /\ Len(DoCalls) = 1
         /\ DoCalls[1].err = NoErr
         /\ ret.value.items = DecodedItems(DoCalls[1].resp.body)

C6_Witness ==
  /\ CalledGetList
  /\ Len(log) = 2
  /\ ret.err # NoErr
  /\ ret.value.nil

(* C7 as stated: the validation error of Get with an empty identifier      *)
(* carries the message "no status category identifier set".                *)
C7_Original ==
  CalledGetEmpty => ret.err.msg = "no status category identifier set"

(* C7 amended: the validation error of Get with an empty identifier        *)
(* carries the message "jira: not status category set".                    *)
C7_Message ==
  CalledGetEmpty =>
    /\ ret.err.kind = "validation"
    /\ ret.err.msg = "jira: not status category set"

C7_Witness == CalledGetEmpty /\ ret.err.msg # "" /\ log = <<>>

(* C8: when the client cannot build the request, GetList and Get return    *)
(* the client's error itself, do not execute anything, and return a nil    *)
(* value and a nil response.                                               *)
C8_BuildFailure ==
  Called =>
    \A i \in DOMAIN log :
      (log[i].fn = "NewRequest" /\ log[i].err # NoErr) =>
        /\ ret.err = log[i].err
        /\ DoCalls = <<>>
        /\ ret.value.nil
        /\ ret.resp.nil

C8_Witness ==
  /\ CalledGet
  /\ Len(log) = 1
  /\ log[1].fn = "NewRequest"
  /\ log[1].err.kind = "config"

(* C9: when the client executes the request without error, GetList returns *)
(* the records deserialized from the body, in the body's order, with the   *)
(* client's response and a nil error.                                      *)
C9_ListPassThrough ==
  CalledGetList =>
    \A i \in DOMAIN log :
      (log[i].fn = "Do" /\ log[i].err = NoErr) =>
        /\ ~ret.value.nil
        /\ ret.value.items = DecodedItems(log[i].resp.body)
        /\ ret.resp = log[i].resp
        /\ ret.err = NoErr

C9_Witness ==
  /\ CalledGetList
  /\ ret.err = NoErr
  /\ Len(ret.value.items) = 2
  /\ ret.value.items[1] # ret.value.items[2]

(* C10 as stated: in every sequence GetList returns successfully no two    *)
(* records share an id and no two share a key.                             *)
UniqueRecords(items) ==
  \A i, j \in DOMAIN items :
    i # j => (items[i].ID # items[j].ID /\ items[i].Key # items[j].Key)

UniqueObjects(objs) ==
  \A i, j \in DOMAIN objs :
    i # j => (objs[i].id # objs[j].id /\ objs[i].key # objs[j].key)

C10_Original ==
  (CalledGetList /\ ret.err = NoErr) => UniqueRecords(ret.value.items)

(* C10 amended: GetList neither checks nor enforces uniqueness: the        *)
(* sequence it returns successfully has pairwise distinct ids and keys     *)
(* exactly when the objects of the response body have.                     *)
C10_UniqueAsServed ==
  (CalledGetList /\ ret.err = NoErr) =>
    /\ Len(DoCalls) = 1
    /\ UniqueRecords(ret.value.items)
         <=> UniqueObjects(DoCalls[1].resp.body.items)

C10_Witness ==
  /\ CalledGetList
  /\ ret.err = NoErr
  /\ Len(ret.value.items) = 2
  /\ ret.value.items[1].ID = ret.value.items[2].ID
  /\ ret.value.items[1].Key # ret.value.items[2].Key

====
